---- MODULE Spec2Model ----
(***************************************************************************)
(* A model of src/pattern_corr.py: pattern_corr, spatial_weights and       *)
(* xarray_pattern_corr.                                                    *)
(*                                                                         *)
(* Numbers are exact extended rationals <<n, d>> in lowest terms with      *)
(* d >= 0: d > 0 is the rational n/d, <<1, 0>> is +inf, <<-1, 0>> is -inf  *)
(* and <<0, 0>> is NaN.  The arithmetic follows the IEEE rules for NaN and *)
(* the infinities; rounding is not modelled.                               *)
(***************************************************************************)
EXTENDS Integers, Sequences, FiniteSets, TLC

\* ------------------------------------------------------------------ bounds
MaxCells == 3
MaxLat == 3
MaxLon == 2
MaxTime == 2

\* -------------------------------------------------------------- arithmetic
NaN == <<0, 0>>
PInf == <<1, 0>>
NInf == <<-1, 0>>
Zero == <<0, 1>>
One == <<1, 1>>

Int2F(i) == <<i, 1>>

Abs(i) == IF i < 0 THEN -i ELSE i

Sign(i) == IF i < 0 THEN -1 ELSE IF i = 0 THEN 0 ELSE 1

RECURSIVE Gcd(_, _)
Gcd(a, b) == IF b = 0 THEN a ELSE Gcd(b, a % b)

\* lowest terms, positive denominator; a zero denominator keeps only the sign
Norm(n, d) ==
    IF d = 0 THEN <<Sign(n), 0>>
    ELSE LET g == Gcd(Abs(n), Abs(d))
             s == Sign(d)
         IN <<(s * n) \div g, (s * d) \div g>>

IsNaN(x) == x = NaN

IsFinite(x) == x[2] # 0

FAdd(x, y) ==
    IF x[2] = 0 /\ y[2] = 0
    THEN (IF x = y THEN x ELSE NaN)
    ELSE Norm(x[1] * y[2] + y[1] * x[2], x[2] * y[2])

FNeg(x) == <<-x[1], x[2]>>

FSub(x, y) == FAdd(x, FNeg(y))

FMul(x, y) == Norm(x[1] * y[1], x[2] * y[2])

FDiv(x, y) ==
    IF y[2] = 0
    THEN (IF x[2] = 0 THEN NaN ELSE IF IsNaN(y) THEN NaN ELSE Zero)
    ELSE IF y[1] = 0 THEN <<Sign(x[1]), 0>>
    ELSE IF x[2] = 0 THEN <<Sign(x[1]) * Sign(y[1]), 0>>
    ELSE Norm(x[1] * y[2], x[2] * y[1])

\* x <= y for numbers that are not NaN
FLeq(x, y) ==
    IF x[2] = 0 \/ y[2] = 0
    THEN x = y \/ x = NInf \/ y = PInf
    ELSE x[1] * y[2] <= y[1] * x[2]

\* ------------------------------------------------------------------ arrays
\* An array is [shape |-> <<rows, cols>>, data |-> the cells in row-major order].
Size(shape) == shape[1] * shape[2]

Arr(shape, data) == [shape |-> shape, data |-> data]

\* the cells computed once, as a tuple
Eager(x) == x \o <<>>

\* elementwise product of two flat arrays of one length
Times(x, y) == Eager([k \in 1..Len(x) |-> FMul(x[k], y[k])])

\* array minus scalar
Minus(x, m) == Eager([k \in 1..Len(x) |-> FSub(x[k], m)])

RECURSIVE SumFrom(_, _)
SumFrom(x, k) ==
    IF k > Len(x) THEN Zero
    ELSE IF IsNaN(x[k]) THEN SumFrom(x, k + 1)
    ELSE FAdd(x[k], SumFrom(x, k + 1))

\* np.nansum: NaN cells count as zero
nansum(x) == SumFrom(x, 1)

\* ------------------------------------------------------------ pattern_corr
\* An optional argument is a sequence of length 0 (None) or 1.
None == <<>>

Some(x) == <<x>>

\* line 43: np.ones(grid_a.shape) / grid_a.size
uniform_weights(shape) ==
    Arr(shape, [k \in 1..Size(shape) |-> FDiv(One, Int2F(Size(shape)))])

default_weights(grid_a, weights) ==
    IF weights = None THEN uniform_weights(grid_a.shape) ELSE weights[1]

\* a check of the sizes where the code checks the shapes
sizes_agree(grid_a, grid_b, w) ==
    Size(grid_a.shape) = Size(grid_b.shape) /\ Size(w.shape) = Size(grid_a.shape)

\* lines 45-46: the two assertions
shapes_agree(grid_a, grid_b, w) ==
    grid_a.shape = grid_b.shape /\ w.shape = grid_a.shape

\* a centering that forgets grid_b
center_only_a(a, b, same, w, centered) ==
    IF ~centered THEN [a |-> a, b |-> b]
    ELSE LET a1 == Minus(a, nansum(Times(a, w)))
         IN [a |-> a1, b |-> IF same THEN a1 ELSE b]

\* lines 48-53 on the cells; same: grid_b is the buffer grid_a is.  Both means
\* are taken before either subtraction, and the second subtraction reads the
\* buffer the first one wrote.
center(a, b, same, w, centered) ==
    IF ~centered THEN [a |-> a, b |-> b]
    ELSE LET grid_mean_a == nansum(Times(a, w))
             grid_mean_b == nansum(Times(b, w))
             a1 == Minus(a, grid_mean_a)
             b1 == Minus(IF same THEN a1 ELSE b, grid_mean_b)
         IN [a |-> IF same THEN b1 ELSE a1, b |-> b1]

\* a numerator that forgets the weights
numerator_unweighted(a, b, w) == nansum(Times(a, b))

\* line 55
numerator(a, b, w) == nansum(Times(Times(a, b), w))

\* a sum that forgets the square
sum_unsquared(a, w) == nansum(Times(a, w))

\* lines 57-58 and the sum of line 60
sum_squared(a, w) == nansum(Times(Times(a, a), w))

\* the product under the square root of line 60
radicand(a, b, w) == FMul(sum_squared(a, w), sum_squared(b, w))

\* lines 60-62: num / sqrt(rad).  The coefficient is kept exactly as
\* <<s, q>>, standing for s * sqrt(q): s its sign and q its square, so
\* <<1, One>> is 1.0, <<0, Zero>> is 0.0, <<0, NaN>> is NaN, <<1, PInf>> +inf.
quotient(num, rad) ==
    IF IsNaN(num) \/ IsNaN(rad) \/ rad = NInf \/ (IsFinite(rad) /\ rad[1] < 0)
    THEN <<0, NaN>>
    ELSE IF rad = PInf
    THEN (IF IsFinite(num) THEN <<0, Zero>> ELSE <<0, NaN>>)
    ELSE IF rad = Zero
    THEN (IF num = Zero THEN <<0, NaN>> ELSE <<Sign(num[1]), PInf>>)
    ELSE IF ~IsFinite(num) THEN <<num[1], PInf>>
    ELSE <<Sign(num[1]), FDiv(FMul(num, num), rad)>>

\* lines 42-53: the weights, the assertions and the centering; raised, or the
\* weights used and the two buffers afterwards
pattern_corr_center(grid_a, grid_b, same, weights, centered) ==
    LET w == default_weights(grid_a, weights)
    IN IF ~shapes_agree(grid_a, grid_b, w)
       THEN [raised |-> TRUE, w |-> w, grid_a |-> grid_a, grid_b |-> grid_b]
       ELSE LET c == center(grid_a.data, grid_b.data, same, w.data, centered)
            IN [raised |-> FALSE, w |-> w,
                grid_a |-> Arr(grid_a.shape, c.a),
                grid_b |-> Arr(grid_b.shape, c.b)]

\* lines 55-62 on the buffers as they are now
pattern_corr_value(grid_a, grid_b, w) ==
    quotient(numerator(grid_a.data, grid_b.data, w.data),
             radicand(grid_a.data, grid_b.data, w.data))

\* The whole call: raised, or the returned value and the buffers afterwards.
pattern_corr(grid_a, grid_b, same, weights, centered) ==
    LET c == pattern_corr_center(grid_a, grid_b, same, weights, centered)
    IN [raised |-> c.raised,
        value |-> IF c.raised THEN <<0, Zero>>
                  ELSE pattern_corr_value(c.grid_a, c.grid_b, c.w),
        grid_a |-> c.grid_a,
        grid_b |-> c.grid_b]

\* --------------------------------------------------------- spatial_weights
\* np.cos(np.deg2rad(lat)) for the latitudes of the model, whose cosines are
\* rational
cos_deg(lat) ==
    IF IsNaN(lat) THEN NaN
    ELSE CASE lat[1] = 0 -> One
           [] lat[1] = 60 -> <<1, 2>>
           [] lat[1] = -60 -> <<1, 2>>

\* np.tile(row, (n, 1)): n rows, each of them the row
tile(row, n) ==
    Arr(<<n, Len(row)>>,
        Eager([k \in 1..(n * Len(row)) |-> row[((k - 1) % Len(row)) + 1]]))

\* .T of a two-dimensional array
transpose(x) ==
    LET r == x.shape[1]
        c == x.shape[2]
    IN Arr(<<c, r>>,
           Eager([k \in 1..(r * c) |->
                    x.data[((k - 1) % r) * c + ((k - 1) \div r) + 1]]))

\* line 79
tile_columns(row, n) == transpose(tile(row, n))

\* a normalisation by the number of cells
normalise_plain(x) ==
    Arr(x.shape,
        Eager([k \in 1..Len(x.data) |->
                 FDiv(x.data[k], Int2F(Len(x.data)))]))

\* line 80
normalise(x) ==
    LET total == nansum(x.data)
    IN Arr(x.shape, Eager([k \in 1..Len(x.data) |-> FDiv(x.data[k], total)]))

\* lines 76-82: raised (the assertion), or the weight field
spatial_weights(latitudes, longitudes_size) ==
    IF ~(longitudes_size >= 0)
    THEN [raised |-> TRUE, value |-> Arr(<<0, 0>>, <<>>)]
    ELSE LET lat_weights ==
                 Eager([k \in 1..Len(latitudes) |-> cos_deg(latitudes[k])])
         IN [raised |-> FALSE,
             value |-> normalise(tile_columns(lat_weights, longitudes_size))]

\* ----------------------------------------------------- xarray_pattern_corr
\* A DataArray of rank 3 is
\*   [dims |-> the three dimension names in positional order,
\*    tname, latname, lonname |-> the names of its time, latitude and
\*                                longitude dimensions,
\*    time |-> the time coordinate, lat |-> the latitude coordinate,
\*    nlon |-> the length of the longitude dimension,
\*    cube |-> for each time position the cells, latitude-major,
\*    attrs |-> the attribute map].
dim_size(ds, name) ==
    IF name = ds.tname THEN Len(ds.time)
    ELSE IF name = ds.latname THEN Len(ds.lat)
    ELSE ds.nlon

\* ds[name].values for the latitude dimension; the labels of the model name a
\* dimension in its own role or no dimension at all
coord_values(ds, name) == ds.lat

has_dim(ds, name) == \E k \in 1..3 : ds.dims[k] = name

\* .shape: the sizes in positional order
shape_of(ds) == <<dim_size(ds, ds.dims[1]), dim_size(ds, ds.dims[2]),
                  dim_size(ds, ds.dims[3])>>

dim_index(ds, name) == CHOOSE k \in 1..3 : ds.dims[k] = name

lat_before_lon(ds) == dim_index(ds, ds.latname) < dim_index(ds, ds.lonname)

\* the slice at time position p as the two-dimensional array the remaining
\* dimensions give, in their positional order; it is a view of the cube
view(ds, p) ==
    LET g == Arr(<<Len(ds.lat), ds.nlon>>, ds.cube[p])
    IN IF lat_before_lon(ds) THEN g ELSE transpose(g)

\* a write through that view
write_view(ds, p, arr) ==
    [ds EXCEPT !.cube[p] = (IF lat_before_lon(ds) THEN arr
                            ELSE transpose(arr)).data]

\* a selection by array position where the code selects by coordinate value
isel_time(ds, times, t) == {p \in 1..Len(ds.time) : p = t}

\* line 125, .sel(time=times[t]): the positions of the time coordinate that
\* hold the value
sel_time(ds, times, t) == {p \in 1..Len(ds.time) : ds.time[p] = times[t]}

\* an attribute merge that keeps b's value of every shared key
shared_attrs(a, b) ==
    [key \in {k \in DOMAIN a : k \in DOMAIN b} |-> b[key]]

\* lines 114-118
combined_attrs(a, b) ==
    [key \in {k \in DOMAIN a : k \in DOMAIN b /\ a[k] = b[k]} |-> b[key]]

\* attrs[key] = val
set_attr(attrs, key, val) ==
    [k \in DOMAIN attrs \cup {key} |-> IF k = key THEN val ELSE attrs[k]]

Description == "transient pattern correlation with latitudinal weights applied"

Units == "[-1, 1]"

\* lines 120-122
new_corr_ds(ds_a, ds_b) ==
    [time |-> ds_a.time,
     values |-> [t \in 1..Len(ds_a.time) |-> <<0, Zero>>],
     attrs |-> set_attr(set_attr(combined_attrs(ds_a.attrs, ds_b.attrs),
                                 "description", Description),
                        "units", Units)]

NoCorr == [time |-> <<>>, values |-> <<>>, attrs |-> <<>>]

NoWeights == Arr(<<0, 0>>, <<>>)

\* lines 112-122.  The output's dimension and the selections of line 125 are
\* named "time" whatever time_dim is: the coordinate ds_a[time_dim] fits the
\* output only when time_dim is "time".
x_begin(ds_a, ds_b, lat_dim, lon_dim, time_dim) ==
    IF \/ shape_of(ds_a) # shape_of(ds_b)
       \/ ~has_dim(ds_a, lat_dim)
       \/ ~has_dim(ds_a, lon_dim)
       \/ ~has_dim(ds_a, time_dim)
       \/ time_dim # "time"
    THEN [raised |-> TRUE, weights |-> NoWeights, corr |-> NoCorr]
    ELSE [raised |-> FALSE,
          weights |-> spatial_weights(coord_values(ds_a, lat_dim),
                                     dim_size(ds_a, lon_dim)).value,
          corr |-> new_corr_ds(ds_a, ds_b)]

\* The loop's state: the two inputs, whether they are one object, the output
\* values and whether an iteration raised.
\* line 125, its selections and lines 42-53 of the call: a selection that
\* finds no slice raises, and one that finds several gives an array of rank 3,
\* which fails the call's assertions.
x_center(st, times, t, w, centered) ==
    LET pa == sel_time(st.ds_a, times, t)
        pb == sel_time(st.ds_b, times, t)
    IN IF \/ ~has_dim(st.ds_a, "time") \/ ~has_dim(st.ds_b, "time")
          \/ Cardinality(pa) # 1 \/ Cardinality(pb) # 1
       THEN [st EXCEPT !.raised = TRUE]
       ELSE LET ia == CHOOSE p \in pa : TRUE
                ib == CHOOSE p \in pb : TRUE
                c == pattern_corr_center(view(st.ds_a, ia), view(st.ds_b, ib),
                                         st.same /\ ia = ib, Some(w), centered)
                a1 == write_view(st.ds_a, ia, c.grid_a)
            IN IF c.raised THEN [st EXCEPT !.raised = TRUE]
               ELSE [st EXCEPT !.ds_a = a1,
                               !.ds_b = IF st.same THEN a1
                                        ELSE write_view(st.ds_b, ib, c.grid_b)]

\* a store that reaches every position of the output
store_all(st, times, t, w) ==
    LET ia == CHOOSE p \in sel_time(st.ds_a, times, t) : TRUE
        ib == CHOOSE p \in sel_time(st.ds_b, times, t) : TRUE
        r == pattern_corr_value(view(st.ds_a, ia), view(st.ds_b, ib), w)
    IN [st EXCEPT !.values = [q \in 1..Len(st.values) |-> r]]

\* lines 55-62 of the call on the two views, and the store of line 125
x_store(st, times, t, w) ==
    LET ia == CHOOSE p \in sel_time(st.ds_a, times, t) : TRUE
        ib == CHOOSE p \in sel_time(st.ds_b, times, t) : TRUE
    IN [st EXCEPT !.values[t] =
            pattern_corr_value(view(st.ds_a, ia), view(st.ds_b, ib), w)]

\* one iteration of the loop of lines 124-125
x_iteration(st, times, t, w, centered) ==
    LET c == x_center(st, times, t, w, centered)
    IN IF c.raised THEN c ELSE x_store(c, times, t, w)

RECURSIVE x_loop(_, _, _, _, _)
x_loop(st, times, t, w, centered) ==
    IF st.raised \/ t > Len(times) THEN st
    ELSE x_loop(x_iteration(st, times, t, w, centered), times, t + 1, w,
                centered)

\* The whole call, its iterations in the loop's order.
xarray_pattern_corr(ds_a, ds_b, same, centered, lat_dim, lon_dim, time_dim) ==
    LET b == x_begin(ds_a, ds_b, lat_dim, lon_dim, time_dim)
        st0 == [ds_a |-> ds_a, ds_b |-> ds_b, same |-> same,
                values |-> b.corr.values, raised |-> b.raised]
        st == IF b.raised THEN st0
              ELSE x_loop(st0, ds_a.time, 1, b.weights, centered)
    IN [raised |-> st.raised,
        corr_ds |-> [b.corr EXCEPT !.values = st.values],
        ds_a |-> st.ds_a,
        ds_b |-> st.ds_b]

\* ------------------------------------------------------------------- state
VARIABLES
    \* a call of pattern_corr
    grid_a, grid_b,     \* the caller's two buffers
    same_buf,           \* grid_b is the very buffer grid_a is
    weights,            \* None or Some(array)
    centered,
    in_a, in_b,         \* the buffers' contents when the call was made
    pc,                 \* "idle", "call", "returned", "raised"
    result,             \* the returned coefficient
    \* a call of spatial_weights
    latitudes, longitudes_size,
    w_pc,               \* "idle", "call", "returned", "raised"
    lat_lon_weights,    \* the returned field
    \* a call of xarray_pattern_corr
    ds_a, ds_b,         \* the two inputs
    x_same,             \* ds_b is the very object ds_a is
    x_centered, lat_dim, lon_dim, time_dim,
    in_ds_a, in_ds_b,   \* the inputs when the call was made
    x_pc,               \* "idle", "call", "loop", "returned", "raised"
    x_weights,          \* the weight field of line 113
    corr_ds,            \* the output series
    phase,              \* per loop index: "todo", "centered", "done"
    log                 \* the loop indices in the order they were stored

cvars == <<grid_a, grid_b, same_buf, weights, centered, in_a, in_b, pc, result>>

wvars == <<latitudes, longitudes_size, w_pc, lat_lon_weights>>

xvars == <<ds_a, ds_b, x_same, x_centered, lat_dim, lon_dim, time_dim,
           in_ds_a, in_ds_b, x_pc, x_weights, corr_ds, phase, log>>

vars == <<cvars, wvars, xvars>>

NoArray == Arr(<<0, 0>>, <<>>)

NoDataArray ==
    [dims |-> <<>>, tname |-> "", latname |-> "", lonname |-> "",
     time |-> <<>>, lat |-> <<>>, nlon |-> 0, cube |-> <<>>, attrs |-> <<>>]

IdleC ==
    /\ grid_a = NoArray /\ grid_b = NoArray /\ in_a = NoArray /\ in_b = NoArray
    /\ same_buf = FALSE /\ weights = None /\ centered = FALSE
    /\ pc = "idle" /\ result = <<0, Zero>>

IdleW ==
    /\ latitudes = <<>> /\ longitudes_size = 0
    /\ w_pc = "idle" /\ lat_lon_weights = NoArray

IdleX ==
    /\ ds_a = NoDataArray /\ ds_b = NoDataArray
    /\ in_ds_a = NoDataArray /\ in_ds_b = NoDataArray
    /\ x_same = FALSE /\ x_centered = FALSE
    /\ lat_dim = "" /\ lon_dim = "" /\ time_dim = ""
    /\ x_pc = "idle" /\ x_weights = NoWeights /\ corr_ds = NoCorr
    /\ phase = <<>>
    /\ log = <<>>

\* ------------------------------------------------- pattern_corr: the calls
\* Grids of up to MaxCells cells draw their cells from GridVals and
\* WeightVals; the grids of SmallShapes draw them from the wider sets too.
GridVals == {Int2F(0), Int2F(1)}

WeightVals == {Int2F(0), Int2F(1), Int2F(2)}

WideGridVals == {NaN, Int2F(-1), Int2F(0), Int2F(1), Int2F(2)}

WideWeightVals == {Int2F(-1), Int2F(0), Int2F(1), Int2F(2)}

SmallShapes == {<<1, 1>>, <<1, 2>>, <<2, 1>>}

Shapes == {s \in (1..MaxCells) \X (1..MaxCells) : Size(s) <= MaxCells}

Arrays(shape, vals) == {Arr(shape, d) : d \in [1..Size(shape) -> vals]}

Inputs(s, gvals, wvals) ==
    /\ grid_a \in Arrays(s, gvals)
    /\ grid_b \in Arrays(s, gvals)
    /\ weights \in {None} \cup {Some(w) : w \in Arrays(s, wvals)}

Fresh ==
    /\ centered \in BOOLEAN
    /\ same_buf \in (IF grid_a = grid_b THEN BOOLEAN ELSE {FALSE})
    /\ in_a = grid_a
    /\ in_b = grid_b
    /\ pc = "call"
    /\ result = <<0, Zero>>
    /\ IdleW
    /\ IdleX

\* pattern_corr called on two grids of one shape, with weights of that shape
\* or none
InitCorr ==
    /\ \/ \E s \in Shapes : Inputs(s, GridVals, WeightVals)
       \/ \E s \in SmallShapes : Inputs(s, WideGridVals, WideWeightVals)
    /\ Fresh

\* pattern_corr called on grids and weights of any shapes
InitShape ==
    /\ \E sa \in Shapes, sb \in Shapes, sw \in Shapes :
         /\ grid_a \in Arrays(sa, GridVals)
         /\ grid_b \in Arrays(sb, GridVals)
         /\ weights \in {None} \cup {Some(w) : w \in Arrays(sw, {One})}
    /\ Fresh

Call ==
    /\ pc = "call"
    /\ \E r \in {pattern_corr(grid_a, grid_b, same_buf, weights, centered)} :
          /\ pc' = IF r.raised THEN "raised" ELSE "returned"
          /\ result' = r.value
          /\ grid_a' = r.grid_a
          /\ grid_b' = IF same_buf THEN r.grid_a ELSE r.grid_b
    /\ UNCHANGED <<same_buf, weights, centered, in_a, in_b, wvars, xvars>>

NextCorr == Call

SpecCorr == InitCorr /\ [][NextCorr]_vars

SpecShape == InitShape /\ [][NextCorr]_vars

\* ---------------------------------------------- spatial_weights: the calls
LatVals == {NaN, Int2F(-60), Int2F(0), Int2F(60)}

SeqsUpTo(vals, n) == UNION {[1..m -> vals] : m \in 0..n}

InitWeights ==
    /\ latitudes \in SeqsUpTo(LatVals, MaxLat)
    /\ longitudes_size \in -1..MaxLon
    /\ w_pc = "call"
    /\ lat_lon_weights = NoArray
    /\ IdleC
    /\ IdleX

CallWeights ==
    /\ w_pc = "call"
    /\ \E r \in {spatial_weights(latitudes, longitudes_size)} :
          /\ w_pc' = IF r.raised THEN "raised" ELSE "returned"
          /\ lat_lon_weights' = r.value
    /\ UNCHANGED <<latitudes, longitudes_size, cvars, xvars>>

NextWeights == CallWeights

SpecWeights == InitWeights /\ [][NextWeights]_vars

\* ------------------------------------------ xarray_pattern_corr: the calls
TimeVals == {10, 20, 40}

FieldKinds == {"ramp", "product", "residue", "gappy"}

\* the cell k of the slice at time position t of a field of each kind
cell(kind, t, k) ==
    CASE kind = "ramp" -> Int2F(t + k)
      [] kind = "product" -> Int2F(t * k - 2)
      [] kind = "residue" -> Int2F((t * t + 2 * k) % 3)
      [] kind = "gappy" -> IF k = t THEN NaN ELSE Int2F(k - 2 * t)

Cube(kind, steps, cells) ==
    [t \in 1..steps |-> [k \in 1..cells |-> cell(kind, t, k)]]

DataArray(dims, names, time, lat, nlon, kind, attrs) ==
    [dims |-> dims, tname |-> names[1], latname |-> names[2],
     lonname |-> names[3], time |-> time, lat |-> lat, nlon |-> nlon,
     cube |-> Cube(kind, Len(time), Len(lat) * nlon), attrs |-> attrs]

DefaultNames == <<"time", "lat", "lon">>

NameChoices == {"time", "t"} \X {"lat", "y"} \X {"lon", "x"}

Orders == {<<1, 2, 3>>, <<1, 3, 2>>, <<2, 1, 3>>, <<2, 3, 1>>, <<3, 1, 2>>,
           <<3, 2, 1>>}

Permuted(names, order) == <<names[order[1]], names[order[2]], names[order[3]]>>

AttrKeys == {"model", "units", "description"}

AttrVals == {"X", "K"}

AttrMaps == UNION {[keys -> AttrVals] : keys \in SUBSET AttrKeys}

AttrsA == [model |-> "X", units |-> "K"]

AttrsB == [model |-> "X", units |-> "C"]

TwoLats == <<Int2F(0), Int2F(60)>>

LatCoords == {<<Int2F(0)>>, TwoLats}

Injective(f) == \A i \in DOMAIN f, j \in DOMAIN f : f[i] = f[j] => i = j

FreshX ==
    /\ x_same \in (IF ds_a = ds_b THEN BOOLEAN ELSE {FALSE})
    /\ x_centered \in BOOLEAN
    /\ in_ds_a = ds_a
    /\ in_ds_b = ds_b
    /\ x_pc = "call"
    /\ x_weights = NoWeights
    /\ corr_ds = NoCorr
    /\ phase = <<>>
    /\ log = <<>>
    /\ IdleC
    /\ IdleW

DefaultLabels == lat_dim = "lat" /\ lon_dim = "lon" /\ time_dim = "time"

\* series whose time coordinates hold any values in any order, repeated ones
\* included; the second series may be the object the first one is
SeriesInputs ==
    /\ \E steps \in 1..MaxTime, nlon \in {1, 2} :
         \E ta \in [1..steps -> TimeVals], ka \in FieldKinds :
           /\ ds_a = DataArray(DefaultNames, DefaultNames, ta, TwoLats, nlon,
                               ka, AttrsA)
           /\ \/ ds_b = ds_a
              \/ \E tb \in [1..steps -> TimeVals], kb \in FieldKinds :
                   ds_b = DataArray(DefaultNames, DefaultNames, tb, TwoLats,
                                    nlon, kb, AttrsB)
    /\ DefaultLabels

\* one time step, and any attribute maps
AttrInputs ==
    /\ \E aa \in AttrMaps, ab \in AttrMaps :
         /\ ds_a = DataArray(DefaultNames, DefaultNames, <<10>>, TwoLats, 1,
                             "ramp", aa)
         /\ ds_b = DataArray(DefaultNames, DefaultNames, <<10>>, TwoLats, 1,
                             "gappy", ab)
    /\ DefaultLabels

\* any names and positional order of the dimensions, any labels, and a second
\* series whose longitude dimension may differ in length
LabelInputs ==
    /\ \E names \in NameChoices, order \in Orders, lat \in LatCoords,
          nlon \in {1, 2}, nlon_b \in {1, 2},
          ka \in {"ramp", "residue"}, kb \in {"product", "gappy"} :
         /\ ds_a = DataArray(Permuted(names, order), names, <<20, 10>>, lat,
                             nlon, ka, AttrsA)
         /\ ds_b = DataArray(Permuted(names, order), names, <<20, 10>>, lat,
                             nlon_b, kb, AttrsB)
    /\ \E labels \in NameChoices :
         time_dim = labels[1] /\ lat_dim = labels[2] /\ lon_dim = labels[3]

InitX == (SeriesInputs \/ AttrInputs \/ LabelInputs) /\ FreshX

\* series whose time coordinates hold pairwise-distinct values in any order;
\* the second series may be the object the first one is
InitPar ==
    /\ \E steps \in 1..MaxTime, nlon \in {1, 2}, order \in {<<1, 2, 3>>, <<1, 3, 2>>} :
         \E ta \in [1..steps -> TimeVals], ka \in {"ramp", "gappy"} :
           /\ Injective(ta)
           /\ ds_a = DataArray(Permuted(DefaultNames, order), DefaultNames,
                               ta, TwoLats, nlon, ka, AttrsA)
           /\ \/ ds_b = ds_a
              \/ \E tb \in [1..steps -> TimeVals], kb \in FieldKinds :
                   /\ Injective(tb)
                   /\ ds_b = DataArray(Permuted(DefaultNames, order),
                                       DefaultNames, tb, TwoLats, nlon, kb,
                                       AttrsB)
    /\ DefaultLabels
    /\ FreshX

LoopState ==
    [ds_a |-> ds_a, ds_b |-> ds_b, same |-> x_same,
     values |-> corr_ds.values, raised |-> FALSE]

\* lines 112-122
XBegin ==
    /\ x_pc = "call"
    /\ \E b \in {x_begin(ds_a, ds_b, lat_dim, lon_dim, time_dim)} :
          /\ x_pc' = IF b.raised THEN "raised" ELSE "loop"
          /\ x_weights' = b.weights
          /\ corr_ds' = b.corr
          /\ phase' = [t \in 1..Len(b.corr.values) |-> "todo"]
    /\ UNCHANGED <<ds_a, ds_b, x_same, x_centered, lat_dim, lon_dim, time_dim,
                   in_ds_a, in_ds_b, log, cvars, wvars>>

Todo == {t \in 1..Len(phase) : phase[t] = "todo"}

Centered == {t \in 1..Len(phase) : phase[t] = "centered"}

\* the loop's state after a step on index t, which leaves it in phase p
AfterStep(st, t, p) ==
    /\ x_pc' = IF st.raised THEN "raised" ELSE "loop"
    /\ ds_a' = st.ds_a
    /\ ds_b' = st.ds_b
    /\ corr_ds' = [corr_ds EXCEPT !.values = st.values]
    /\ phase' = IF st.raised THEN phase ELSE [phase EXCEPT ![t] = p]
    /\ log' = IF ~st.raised /\ p = "done" THEN Append(log, t) ELSE log
    /\ UNCHANGED <<x_same, x_centered, lat_dim, lon_dim, time_dim, in_ds_a,
                   in_ds_b, x_weights, cvars, wvars>>

\* lines 124-125: the next iteration of the loop
XStep ==
    /\ x_pc = "loop"
    /\ Todo # {}
    /\ Centered = {}
    /\ \E t \in {u \in Todo : \A v \in Todo : u <= v} :
         \E st \in {x_iteration(LoopState, corr_ds.time, t, x_weights,
                                x_centered)} :
           AfterStep(st, t, "done")

\* line 127
XReturn ==
    /\ x_pc = "loop"
    /\ \A t \in 1..Len(phase) : phase[t] = "done"
    /\ x_pc' = "returned"
    /\ UNCHANGED <<ds_a, ds_b, x_same, x_centered, lat_dim, lon_dim, time_dim,
                   in_ds_a, in_ds_b, x_weights, corr_ds, phase, log, cvars,
                   wvars>>

\* the iterations run in any order, each in two steps: the selections and
\* the centering (lines 42-53 of the call) ...
ParCenter(t) ==
    /\ x_pc = "loop"
    /\ t \in Todo
    /\ \E st \in {x_center(LoopState, corr_ds.time, t, x_weights, x_centered)} :
         AfterStep(st, t, "centered")

\* ... and the coefficient and its store (lines 55-62 of the call)
ParStore(t) ==
    /\ x_pc = "loop"
    /\ t \in Centered
    /\ \E st \in {x_store(LoopState, corr_ds.time, t, x_weights)} :
         AfterStep(st, t, "done")

NextX == XBegin \/ XStep \/ XReturn

NextPar ==
    \/ XBegin
    \/ \E t \in 1..Len(phase) : ParCenter(t)
    \/ \E t \in 1..Len(phase) : ParStore(t)
    \/ XReturn

SpecX == InitX /\ [][NextX]_vars

SpecPar == InitPar /\ [][NextPar]_vars

\* ----------------------------------------------------- pattern_corr: claims
NoMissing(x) == \A k \in 1..Len(x) : ~IsNaN(x[k])

NonNegative(x) == \A k \in 1..Len(x) : ~IsNaN(x[k]) /\ FLeq(Zero, x[k])

NonConstantOn(x, cells) == \E j \in cells, k \in cells : x[j] # x[k]

NonConstant(x) == NonConstantOn(x, 1..Len(x))

\* the weights the call used
UsedWeights == default_weights(in_a, weights).data

\* the cells of positive weight
Support == {k \in 1..Len(UsedWeights) : UsedWeights[k] # Zero}

SelfCall ==
    /\ pc = "returned"
    /\ centered
    /\ in_a = in_b
    /\ NoMissing(in_a.data)
    /\ NonNegative(UsedWeights)

InUnitInterval(r) == IsFinite(r[2]) /\ FLeq(r[2], One)

\* C2: for grids without missing values and non-negative weights, whenever the
\* denominator is not zero the returned value lies in [-1, 1], centered or not.
C2_ResultInUnitInterval ==
    ( /\ pc = "returned"
      /\ NoMissing(in_a.data)
      /\ NoMissing(in_b.data)
      /\ NonNegative(UsedWeights)
      /\ radicand(grid_a.data, grid_b.data, UsedWeights) # Zero )
    => InUnitInterval(result)

C2_Witness ==
    /\ pc = "returned"
    /\ centered
    /\ NoMissing(in_a.data)
    /\ NoMissing(in_b.data)
    /\ NonNegative(UsedWeights)
    /\ result[1] = 1
    /\ IsFinite(result[2])
    /\ result[2] # One

\* C3 as stated: after a centered call each buffer holds its original values
\* minus its own weighted mean, also when the two grids are one buffer.
C3_EachGridMinusItsMean ==
    (pc = "returned" /\ centered) =>
        /\ grid_a.data =
             Minus(in_a.data, nansum(Times(in_a.data, UsedWeights)))
        /\ grid_b.data =
             Minus(in_b.data, nansum(Times(in_b.data, UsedWeights)))

ShapeMismatch ==
    \/ in_a.shape # in_b.shape
    \/ weights # None /\ weights[1].shape # in_a.shape

\* C4: a call whose grids differ in shape, or whose supplied weights differ in
\* shape from grid_a, fails; it returns no value and leaves both grids as they
\* were, centered or not.  A call without such a mismatch does not fail.
C4_ShapeMismatchRaises ==
    pc # "call" =>
        /\ ShapeMismatch <=> pc = "raised"
        /\ pc = "raised" =>
             grid_a = in_a /\ grid_b = in_b /\ result = <<0, Zero>>

C4_Witness ==
    /\ pc = "raised"
    /\ centered
    /\ in_a.shape = in_b.shape
    /\ weights # None
    /\ weights[1].shape # in_a.shape
    /\ Size(weights[1].shape) = Size(in_a.shape)
    /\ nansum(Times(in_a.data, weights[1].data)) # Zero

\* C9: the call with the two grids exchanged, on the same input values, gives
\* the same value.
C9_Symmetric ==
    pc = "returned" =>
        result = pattern_corr(in_b, in_a, same_buf, weights, centered).value

C9_Witness ==
    /\ pc = "returned"
    /\ centered
    /\ in_a # in_b
    /\ weights # None
    /\ NoMissing(in_a.data)
    /\ NoMissing(in_b.data)
    /\ NonNegative(UsedWeights)
    /\ result[1] = -1
    /\ IsFinite(result[2])
    /\ result[2] # One

\* ---------------------------------------------------- spatial_weights: claims
SomeLatitude == \E k \in 1..Len(latitudes) : ~IsNaN(latitudes[k])

SumsToOne ==
    /\ lat_lon_weights.shape = <<Len(latitudes), longitudes_size>>
    /\ nansum(lat_lon_weights.data) = One

\* C8 as stated: for every non-empty latitude sequence and every n > 0 the
\* field has shape (len(latitudes), n) and its non-missing cells sum to 1.
C8_WeightsSumToOne ==
    (w_pc = "returned" /\ Len(latitudes) > 0 /\ longitudes_size > 0)
    => SumsToOne

\* C8 amended: for every sequence of latitudes between -90 and 90 degrees of
\* which at least one is not missing, and every n > 0, the field has shape
\* (len(latitudes), n) and its non-missing cells sum to 1.
C8_WeightsSumToOneIfSomeLatitude ==
    (w_pc = "returned" /\ SomeLatitude /\ longitudes_size > 0)
    => SumsToOne

C8_Witness ==
    /\ w_pc = "returned"
    /\ longitudes_size > 1
    /\ \E k \in 1..Len(latitudes) : IsNaN(latitudes[k])
    /\ \E j \in 1..Len(latitudes), k \in 1..Len(latitudes) :
          /\ ~IsNaN(latitudes[j]) /\ ~IsNaN(latitudes[k])
          /\ cos_deg(latitudes[j]) # cos_deg(latitudes[k])
    /\ SumsToOne

\* ------------------------------------------------ xarray_pattern_corr: claims
\* the weight field of the call, from the input's latitudes and longitudes
InputWeights == spatial_weights(in_ds_a.lat, in_ds_a.nlon).value

\* the time positions of an input whose coordinate holds the value the first
\* input's coordinate holds at index t
PositionsByLabel(ds, t) ==
    {p \in 1..Len(ds.time) : ds.time[p] = in_ds_a.time[t]}

\* C5: the returned series has one value per time step and the first input's
\* time coordinate, and its value at index t is pattern_corr of the two
\* slices that the coordinate value at index t selects.
C5_OneValuePerLabel ==
    x_pc = "returned" =>
        /\ Len(corr_ds.values) = Len(in_ds_a.time)
        /\ corr_ds.time = in_ds_a.time
        /\ \A t \in 1..Len(in_ds_a.time) :
             /\ PositionsByLabel(in_ds_a, t) # {}
             /\ PositionsByLabel(in_ds_b, t) # {}
             /\ \A pa \in PositionsByLabel(in_ds_a, t),
                   pb \in PositionsByLabel(in_ds_b, t) :
                  corr_ds.values[t] =
                      pattern_corr(view(in_ds_a, pa), view(in_ds_b, pb),
                                   x_same /\ pa = pb, Some(InputWeights),
                                   x_centered).value

C5_Witness ==
    /\ x_pc = "returned"
    /\ x_centered
    /\ Len(in_ds_a.time) > 1
    /\ in_ds_a.time[1] > in_ds_a.time[2]
    /\ in_ds_a.time[1] - in_ds_a.time[2] > 10
    /\ in_ds_b.time # in_ds_a.time
    /\ corr_ds.values[1] # corr_ds.values[2]
    /\ corr_ds.values[2][2] # NaN

\* the same data laid out as (time, lat, lon) under the default names
Canonical(ds) ==
    [ds EXCEPT !.dims = DefaultNames, !.tname = "time", !.latname = "lat",
               !.lonname = "lon"]

Reference ==
    xarray_pattern_corr(Canonical(in_ds_a), Canonical(in_ds_b), x_same,
                        x_centered, "lat", "lon", "time")

LabelsNameTheDimensions ==
    /\ time_dim = in_ds_a.tname
    /\ lat_dim = in_ds_a.latname
    /\ lon_dim = in_ds_a.lonname

\* C6 as stated: whatever the names and the positional order of the three
\* dimensions, a call that is passed the names gives the series that the same
\* data gives when laid out as (time, lat, lon) under the default names.
C6_LayoutIndependent ==
    (x_pc \in {"returned", "raised"} /\ LabelsNameTheDimensions) =>
        /\ (x_pc = "raised") = Reference.raised
        /\ x_pc = "returned" =>
             /\ corr_ds.time = Reference.corr_ds.time
             /\ corr_ds.values = Reference.corr_ds.values

CommonKeys ==
    {k \in DOMAIN in_ds_a.attrs :
        k \in DOMAIN in_ds_b.attrs /\ in_ds_a.attrs[k] = in_ds_b.attrs[k]}

\* C7: the output's attributes are the keys both inputs hold with equal
\* values, then "description" and "units" set to their fixed texts.
C7_OutputAttributes ==
    x_pc = "returned" =>
        corr_ds.attrs =
            [k \in CommonKeys \cup {"description", "units"} |->
                IF k = "description"
                THEN "transient pattern correlation with latitudinal weights applied"
                ELSE IF k = "units" THEN "[-1, 1]"
                ELSE in_ds_a.attrs[k]]

C7_Witness ==
    /\ x_pc = "returned"
    /\ "model" \in DOMAIN in_ds_a.attrs
    /\ "model" \in DOMAIN in_ds_b.attrs
    /\ in_ds_a.attrs["model"] # in_ds_b.attrs["model"]
    /\ "units" \in CommonKeys
    /\ "description" \in DOMAIN in_ds_a.attrs
    /\ "description" \notin DOMAIN in_ds_b.attrs
    /\ DOMAIN corr_ds.attrs = {"description", "units"}

Sequential ==
    xarray_pattern_corr(in_ds_a, in_ds_b, x_same, x_centered, lat_dim,
                        lon_dim, time_dim)

\* C10: for time values that are pairwise distinct, the iterations run in any
\* order and interleaving give the output series and the final inputs that
\* the loop gives, and leave the weight field as it was built.
C10_OrderIndependent ==
    x_pc = "returned" =>
        /\ ~Sequential.raised
        /\ corr_ds = Sequential.corr_ds
        /\ ds_a = Sequential.ds_a
        /\ ds_b = Sequential.ds_b
        /\ x_weights = InputWeights

C10_Witness ==
    /\ x_pc = "returned"
    /\ x_centered
    /\ Len(log) > 1
    /\ log[1] > log[2]
    /\ in_ds_b.time # in_ds_a.time
    /\ ds_a # in_ds_a
    /\ ds_b # in_ds_b
    /\ corr_ds.values[1] # corr_ds.values[2]

====
